---- MODULE Spec2Model ----
(***************************************************************************)
(* Model of assets/js/download.js: the content resolver fetchFileContent,  *)
(* base-prefix detection getBaseUrl, the bulk archive download             *)
(* downloadAllSkills and the single-file download downloadSkillFile.       *)
(*                                                                         *)
(* Strings are sequences of tokens.  A token is either the separator "/",  *)
(* a whitespace " ", or an indivisible run of other characters (a path     *)
(* segment, the literal "<!DOCTYPE", a chunk of markdown text).            *)
(***************************************************************************)
EXTENDS Integers, Sequences, FiniteSets, TLC

\* ------------------------------------------------------------------ bounds
\* Number of entries of SKILLS_LIST (taken from its head) a bulk download maps over.
NumSkills == 2

\* --------------------------------------------------------------- constants
GITHUB_REPO == <<"meleantonio", "/", "awesome-econ-ai-stuff">>

GITHUB_BRANCH == <<"main">>

SkillMd(category, name) == <<"_skills", "/", category, "/", name, "/", "SKILL.md">>

\* SKILLS_LIST with every entry a copy of the first.
SKILLS_LIST_Copies ==
  [i \in 1 .. 12 |-> [path |-> SkillMd("analysis", "r-econometrics"),
                      name |-> "r-econometrics"]]

\* SKILLS_LIST with the path of the first entry pasted into the second.
SKILLS_LIST_PastedPath ==
  << [path |-> SkillMd("analysis", "r-econometrics"),           name |-> "r-econometrics"],
     [path |-> SkillMd("analysis", "r-econometrics"),           name |-> "stata-regression"],
     [path |-> SkillMd("analysis", "python-panel-data"),        name |-> "python-panel-data"],
     [path |-> SkillMd("data", "stata-data-cleaning"),          name |-> "stata-data-cleaning"],
     [path |-> SkillMd("data", "api-data-fetcher"),             name |-> "api-data-fetcher"],
     [path |-> SkillMd("theory", "latex-econ-model"),           name |-> "latex-econ-model"],
     [path |-> SkillMd("writing", "academic-paper-writer"),     name |-> "academic-paper-writer"],
     [path |-> SkillMd("writing", "latex-tables"),              name |-> "latex-tables"],
     [path |-> SkillMd("communication", "beamer-presentation"), name |-> "beamer-presentation"],
     [path |-> SkillMd("communication", "econ-visualization"),  name |-> "econ-visualization"],
     [path |-> SkillMd("ideation", "research-ideation"),        name |-> "research-ideation"],
     [path |-> SkillMd("literature", "lit-review-assistant"),   name |-> "lit-review-assistant"] >>

SKILLS_LIST ==
  << [path |-> SkillMd("analysis", "r-econometrics"),           name |-> "r-econometrics"],
     [path |-> SkillMd("analysis", "stata-regression"),         name |-> "stata-regression"],
     [path |-> SkillMd("analysis", "python-panel-data"),        name |-> "python-panel-data"],
     [path |-> SkillMd("data", "stata-data-cleaning"),          name |-> "stata-data-cleaning"],
     [path |-> SkillMd("data", "api-data-fetcher"),             name |-> "api-data-fetcher"],
     [path |-> SkillMd("theory", "latex-econ-model"),           name |-> "latex-econ-model"],
     [path |-> SkillMd("writing", "academic-paper-writer"),     name |-> "academic-paper-writer"],
     [path |-> SkillMd("writing", "latex-tables"),              name |-> "latex-tables"],
     [path |-> SkillMd("communication", "beamer-presentation"), name |-> "beamer-presentation"],
     [path |-> SkillMd("communication", "econ-visualization"),  name |-> "econ-visualization"],
     [path |-> SkillMd("ideation", "research-ideation"),        name |-> "research-ideation"],
     [path |-> SkillMd("literature", "lit-review-assistant"),   name |-> "lit-review-assistant"] >>

\* The entries one bulk download resolves: SKILLS_LIST.map(...) over the bounded head.
Entries == 1 .. NumSkills

\* Call id of the single fetchFileContent activation of downloadSkillFile.
SkillCall == 0

CallIds == {SkillCall} \cup Entries

\* ----------------------------------------------------------- string helpers
Whitespace == {" "}

RECURSIVE TrimStart(_)
TrimStart(s) ==
  IF Len(s) > 0 /\ Head(s) \in Whitespace THEN TrimStart(Tail(s)) ELSE s

RECURSIVE TrimEnd(_)
TrimEnd(s) ==
  IF Len(s) > 0 /\ s[Len(s)] \in Whitespace THEN TrimEnd(SubSeq(s, 1, Len(s) - 1)) ELSE s

\* String.prototype.trim: whitespace removed from both ends.
Trim(s) == TrimEnd(TrimStart(s))

\* String.prototype.startsWith
StartsWith(s, p) == Len(p) <= Len(s) /\ SubSeq(s, 1, Len(p)) = p

\* String.prototype.includes
Includes(s, p) ==
  \E i \in 1 .. (Len(s) + 1) : i + Len(p) - 1 <= Len(s) /\ SubSeq(s, i, i + Len(p) - 1) = p

\* String.prototype.substring(n): the string from index n (0-based) to the end.
Substring(s, n) == SubSeq(s, n + 1, Len(s))

\* s.replace(/\/$/, ''): one trailing "/" removed.
StripTrailingSlash(s) ==
  IF Len(s) > 0 /\ s[Len(s)] = "/" THEN SubSeq(s, 1, Len(s) - 1) ELSE s

RECURSIVE SplitFrom(_, _, _)
SplitFrom(s, i, cur) ==
  IF i > Len(s) THEN << cur >>
  ELSE IF s[i] = "/" THEN << cur >> \o SplitFrom(s, i + 1, << >>)
  ELSE SplitFrom(s, i + 1, Append(cur, s[i]))

\* s.split('/'): the segments between separators, empty segments kept.
Split(s) == SplitFrom(s, 1, << >>)

\* parts[k] with JavaScript's 0-based index; an absent element is undefined,
\* which string concatenation renders as the text "undefined".
Part(parts, k) == IF k + 1 \in 1 .. Len(parts) THEN parts[k + 1] ELSE << "undefined" >>

\* ------------------------------------------------------------ environment
\* Response bodies the two servers may return.
Bodies == { << "A" >>, << " ", "B" >>, << " ", "<!DOCTYPE", "A" >>, << "<html", "B" >> }

\* What a fetch() promise settles to: rejection (network error), or a
\* response whose ok flag is false (non-2xx) or true.
FetchOutcomes == {"reject", "notok", "ok"}

StatusText == << "Not Found" >>

DeploymentSubPath == << "/", "awesome-econ-ai-stuff" >>

Origin == "https://meleantonio.github.io"

\* Ambient page states.  index.html carries the download-all button, the
\* skill layout carries the download-skill button.
LandingPages ==
  { [kind |-> "index", siteBaseurl |-> [defined |-> TRUE, value |-> DeploymentSubPath],
     baseTag |-> [present |-> FALSE, href |-> << >>],
     pathname |-> << "/", "awesome-econ-ai-stuff", "/" >>],
    [kind |-> "index", siteBaseurl |-> [defined |-> FALSE, value |-> << >>],
     baseTag |-> [present |-> FALSE, href |-> << >>],
     pathname |-> << "/" >>] }

SkillPathnames ==
  { << "/", "awesome-econ-ai-stuff", "/", "skills", "/", "analysis", "/", "r-econometrics", "/" >>,
    << "/", "awesome-econ-ai-stuff", "/", "skills", "/", "writing", "/", "latex-tables" >>,
    << "/", "skills", "/", "analysis", "/", "r-econometrics", "/" >>,
    << "/" >> }

SkillPages ==
  { [kind |-> "skill", siteBaseurl |-> sb, baseTag |-> bt, pathname |-> pn] :
      sb \in { [defined |-> TRUE, value |-> DeploymentSubPath],
               [defined |-> TRUE, value |-> << >>],
               [defined |-> FALSE, value |-> << >>] },
      bt \in { [present |-> FALSE, href |-> << >>],
               [present |-> TRUE, href |-> << Origin, "/", "awesome-econ-ai-stuff", "/" >>] },
      pn \in SkillPathnames }

Pages == LandingPages \cup SkillPages

\* ------------------------------------------------------------------ state
VARIABLES
  page,        \* window.siteBaseurl, the <base> tag, window.location.pathname
  skillsList,  \* the array object bound to SKILLS_LIST
  JSZipLoaded, \* whether window.JSZip is set (the CDN script loaded)
  allBtn,      \* #download-all-btn
  skillBtn,    \* #download-skill-btn
  allOp,       \* position of downloadAllSkills
  skillOp,     \* position of downloadSkillFile
  calls,       \* the activations of fetchFileContent, by call id
  settled,     \* per entry: how the promise of the map callback settled
  zip,         \* the JSZip instance: folder names and files
  blob,        \* the promise of zip.generateAsync: none, pending, fulfilled, rejected
  skillPath,   \* the local skillPath of downloadSkillFile
  downloads,   \* save-as-file actions (a.click()) of the current operation
  alerts,      \* alert() dialogs of the current operation
  console,     \* console.warn / console.error records of the current operation
  labelBefore, \* textContent of the triggering button when the operation started
  formFields,  \* the values of the fields of #skill-form
  submitBtn,   \* the submit button of the form
  submitOp,    \* position of the submit handler
  originalText, \* the local originalText of the submit handler
  response,    \* what the promise of submitSkill settled to
  formHidden,  \* #skill-form.hidden
  successHidden, \* #success-message.hidden
  errorHidden, \* #error-message.hidden
  prLinkHref,  \* #pr-link.href
  errorText,   \* #error-text.textContent
  opened,      \* the URLs window.open has opened in a new tab
  github,      \* the issues and pull requests of the repository on GitHub
  preview,     \* textContent of the code element of #skill-preview
  timers,      \* the pending timers of setTimeout
  timeout,     \* per field: the variable timeout of its debounced listener
  events,      \* the number of input events dispatched so far
  eventBudget, \* the number of input events of the scenario
  lastCall,    \* per field: the arguments of the last call of its debounced listener
  sinceCall,   \* per field: the time since that call, up to the wait
  funcRuns,    \* per field: the runs of func by its debounced listener since that call
  ranWith,     \* per field: the arguments of the latest such run
  ranAfter     \* per field: the time between the last call and the latest such run

submitVars == << submitBtn, submitOp, originalText, response, formHidden,
                successHidden, errorHidden, prLinkHref, errorText, opened, github >>

debounceVars == << timers, timeout, events, eventBudget, lastCall, sinceCall, funcRuns,
                  ranWith, ranAfter >>

formVars == << formFields, submitVars, preview, debounceVars >>

downloadVars == << page, skillsList, JSZipLoaded, allBtn, skillBtn, allOp, skillOp, calls,
                  settled, zip, blob, skillPath, downloads, alerts, labelBefore >>

vars == << downloadVars, console, formVars >>

NoBody == << >>

NoError == [name |-> "none", message |-> << >>]

NoOutcome == [kind |-> "none", body |-> NoBody]

\* requests: the URLs this activation has passed to fetch(), in order.
IdleCall ==
  [pc |-> "idle", path |-> << >>, url |-> << >>, requests |-> << >>,
   primary |-> NoOutcome, secondary |-> NoOutcome, content |-> NoBody,
   error |-> NoError]

EmptyZip == [folders |-> {}, files |-> {}]

\* ------------------------------------------------------------- getBaseUrl
URLPathname(href) == IF Len(href) > 1 THEN Tail(href) ELSE << "/" >>

\* getBaseUrl consulting the <base> tag before the injected value.
getBaseUrlTagFirst(p) ==
  IF p.baseTag.present /\ p.baseTag.href # << >>
  THEN StripTrailingSlash(URLPathname(p.baseTag.href))
  ELSE IF p.siteBaseurl.defined THEN p.siteBaseurl.value
  ELSE IF Includes(p.pathname, DeploymentSubPath) THEN DeploymentSubPath
  ELSE << >>

getBaseUrl(p) ==
  IF p.siteBaseurl.defined THEN p.siteBaseurl.value
  ELSE IF p.baseTag.present /\ p.baseTag.href # << >>
       THEN StripTrailingSlash(URLPathname(p.baseTag.href))
  ELSE IF Includes(p.pathname, DeploymentSubPath) THEN DeploymentSubPath
  ELSE << >>

\* -------------------------------------------------------- fetchFileContent
\* IsHtml with the trim() forgotten.
IsHtmlNoTrim(content) ==
  StartsWith(content, << "<!DOCTYPE" >>) \/ StartsWith(content, << "<html" >>)

\* IsHtml with the second alternative forgotten.
IsHtmlDoctypeOnly(content) == StartsWith(Trim(content), << "<!DOCTYPE" >>)

\* The check of line 43: content.trim() starts with '<!DOCTYPE' or '<html'.
IsHtml(content) ==
  StartsWith(Trim(content), << "<!DOCTYPE" >>) \/ StartsWith(Trim(content), << "<html" >>)

githubUrl(path) ==
  << "https://raw.githubusercontent.com", "/" >> \o GITHUB_REPO \o << "/" >>
     \o GITHUB_BRANCH \o << "/" >> \o path

\* What the promise of fetch() or of response.text() can settle to.
FetchSettlements == { [kind |-> k, body |-> NoBody] : k \in FetchOutcomes }

TextSettlements ==
  { [kind |-> "reject", body |-> NoBody] } \cup { [kind |-> "body", body |-> b] : b \in Bodies }

\* The rejection value of fetch() / response.text(): the browser's TypeError.
NetworkError == [name |-> "TypeError", message |-> << "Failed to fetch" >>]

\* StatusError with a message that leaves the path out.
StatusErrorNoPath(path) ==
  [name |-> "Error", message |-> << "Failed to fetch from GitHub: " >> \o StatusText]

\* new Error(`Failed to fetch ${path} from GitHub: ${response.statusText}`)
StatusError(path) ==
  [name |-> "Error",
   message |-> << "Failed to fetch " >> \o path \o << " from GitHub: " >> \o StatusText]

\* Entry of fetchFileContent up to its first await: the primary request is issued.
StartCall(p, path) ==
  [IdleCall EXCEPT !.pc = "primaryFetch", !.path = path,
                   !.url = getBaseUrl(p) \o << "/" >> \o path,
                   !.requests = << getBaseUrl(p) \o << "/" >> \o path >>]

\* Lines 52-54: the secondary request is issued.
Fallback(c) ==
  [c EXCEPT !.pc = "secondaryFetch", !.url = githubUrl(c.path),
            !.requests = Append(@, githubUrl(c.path))]

\* Lines 39-40 and the catch of 48: the primary fetch() promise settles.
OnPrimaryFetch(c, r) ==
  IF r.kind = "ok" THEN [c EXCEPT !.pc = "primaryText"]
  ELSE Fallback([c EXCEPT !.primary = r])

\* OnPrimaryText without the return of line 46: the fallback runs after valid text too.
OnPrimaryTextNoReturn(c, r) == Fallback([c EXCEPT !.primary = r])

\* Lines 41-47 and the catch of 48: the primary response.text() promise settles.
OnPrimaryText(c, r) ==
  IF r.kind = "body" /\ ~IsHtml(r.body)
  THEN [c EXCEPT !.pc = "returned", !.primary = r, !.content = r.body]
  ELSE Fallback([c EXCEPT !.primary = r])

\* Lines 54-57: the secondary fetch() promise settles.
OnSecondaryFetch(c, r) ==
  CASE r.kind = "ok"     -> [c EXCEPT !.pc = "secondaryText"]
    [] r.kind = "notok"  -> [c EXCEPT !.pc = "thrown", !.secondary = r,
                                      !.error = StatusError(c.path)]
    [] r.kind = "reject" -> [c EXCEPT !.pc = "thrown", !.secondary = r,
                                      !.error = NetworkError]

\* OnSecondaryText returning the content read by the primary attempt.
OnSecondaryTextStale(c, r) ==
  IF r.kind = "body"
  THEN [c EXCEPT !.pc = "returned", !.secondary = r, !.content = c.primary.body]
  ELSE [c EXCEPT !.pc = "thrown", !.secondary = r, !.error = NetworkError]

\* Line 58: the secondary response.text() promise settles.
OnSecondaryText(c, r) ==
  IF r.kind = "body"
  THEN [c EXCEPT !.pc = "returned", !.secondary = r, !.content = r.body]
  ELSE [c EXCEPT !.pc = "thrown", !.secondary = r, !.error = NetworkError]

\* One settlement of the request a call is waiting for.
Advance(c, r) ==
  CASE c.pc = "primaryFetch"   -> OnPrimaryFetch(c, r)
    [] c.pc = "primaryText"    -> OnPrimaryText(c, r)
    [] c.pc = "secondaryFetch" -> OnSecondaryFetch(c, r)
    [] c.pc = "secondaryText"  -> OnSecondaryText(c, r)

Settlements(c) ==
  IF c.pc \in {"primaryFetch", "secondaryFetch"} THEN FetchSettlements
  ELSE IF c.pc \in {"primaryText", "secondaryText"} THEN TextSettlements
  ELSE {}

\* console.warn of line 49, issued whenever the primary attempt throws.
PrimaryWarned(before, after) ==
  before.pc \in {"primaryFetch", "primaryText"} /\ after.pc = "secondaryFetch"
  /\ after.primary.kind # "notok"

\* ------------------------------------------------------------------ JSZip
\* folder.folder(name): the folder entry is created, the handle has the longer root.
ZipFolder(z, root, name) == [z EXCEPT !.folders = @ \cup {root \o name \o << "/" >>}]

\* folder.file(name, content): the entry is created or replaced.
ZipFile(z, root, name, content) ==
  [z EXCEPT !.files = {f \in @ : f.name # root \o name}
                        \cup {[name |-> root \o name, content |-> content]}]

\* StoreSkill with the segment indices off by one.
StoreSkillShifted(z, path, content) ==
  LET pathParts      == Split(path)
      category       == Part(pathParts, 0)
      skillName      == Part(pathParts, 1)
      skillsRoot     == << "skills", "/" >>
      categoryRoot   == skillsRoot \o category \o << "/" >>
      skillRoot      == categoryRoot \o skillName \o << "/" >>
  IN  ZipFile(ZipFolder(ZipFolder(z, skillsRoot, category), categoryRoot, skillName),
              skillRoot, << "SKILL.md" >>, content)

\* Lines 109-115: the entry's content is stored under skills/<category>/<name>/SKILL.md.
StoreSkill(z, path, content) ==
  LET pathParts      == Split(path)
      category       == Part(pathParts, 1)
      skillName      == Part(pathParts, 2)
      skillsRoot     == << "skills", "/" >>
      categoryRoot   == skillsRoot \o category \o << "/" >>
      skillRoot      == categoryRoot \o skillName \o << "/" >>
  IN  ZipFile(ZipFolder(ZipFolder(z, skillsRoot, category), categoryRoot, skillName),
              skillRoot, << "SKILL.md" >>, content)

\* ---------------------------------------------------------------- buttons
\* Busy when the lookup of the button has found nothing: it is left as it is.
BusyUntouched(b) == b

\* Busy with the disabling forgotten.
BusyLabelOnly(b) == [b EXCEPT !.textContent = "Downloading..."]

\* Lines 88-89 and 155-156.
Busy(b) == [b EXCEPT !.disabled = TRUE, !.textContent = "Downloading..."]

\* AllIdleAfterSave with the re-enabling forgotten.
AllIdleAfterSaveStillDisabled(b) == [b EXCEPT !.textContent = "Download All Skills"]

\* Lines 135-138.
AllIdleAfterSave(b) == [b EXCEPT !.disabled = FALSE, !.textContent = "Download All Skills"]

\* AllIdleAfterAlert with the re-enabling forgotten.
AllIdleAfterAlertStillDisabled(b) == [b EXCEPT !.textContent = "Download All Skills"]

\* Lines 142-145.
AllIdleAfterAlert(b) == [b EXCEPT !.disabled = FALSE, !.textContent = "Download All Skills"]

\* Lines 195-198.
SkillIdleAfterSave(b) == [b EXCEPT !.disabled = FALSE, !.textContent = "Download SKILL.md"]

\* SkillIdleAfterAlert with the label of the other button.
SkillIdleAfterAlertWrongLabel(b) ==
  [b EXCEPT !.disabled = FALSE, !.textContent = "Download All Skills"]

\* Lines 202-205.
SkillIdleAfterAlert(b) == [b EXCEPT !.disabled = FALSE, !.textContent = "Download SKILL.md"]

AllAlert == "Failed to download skills. Please try again."

SkillAlert == "Failed to download SKILL.md file. Please try again."

\* The fields of the form as the page loads them, all empty; also the state
\* of a page without #skill-form, where initForm returns at once (line 15).
NoFields ==
  [name |-> << >>, tags |-> << >>, compatibility |-> << >>, example |-> << >>,
   github_username |-> << >>, description |-> << >>, workflow_stage |-> << >>,
   primary_tool |-> << >>, purpose |-> << >>, instructions |-> << >>,
   author_name |-> << >>, author_email |-> << >>]

NoResponse == [state |-> "none", error |-> NoError, success |-> FALSE, prUrl |-> << >>]

\* The fields whose input and change events the model dispatches.
Elements == { "name", "example" }

\* Line 151: the wait of 300 ms, in units of 150 ms.
Wait == 2

\* No listener has been called and no timer is pending.
NoTimers ==
  /\ timers = {}
  /\ timeout = [el \in Elements |-> 0]
  /\ events = 0
  /\ lastCall = [el \in Elements |-> 0]
  /\ sinceCall = [el \in Elements |-> Wait]
  /\ funcRuns = [el \in Elements |-> 0]
  /\ ranWith = [el \in Elements |-> 0]
  /\ ranAfter = [el \in Elements |-> 0]

\* What the submit page shows before any submission.
FormLoaded ==
  /\ submitOp = "idle"
  /\ originalText = ""
  /\ response = NoResponse
  /\ formHidden = FALSE
  /\ successHidden = TRUE
  /\ errorHidden = TRUE
  /\ prLinkHref = << >>
  /\ errorText = << >>
  /\ opened = << >>
  /\ github = [issues |-> {}, pulls |-> {}]

\* ------------------------------------------------------------------- Init
Init ==
  /\ page \in Pages
  /\ skillsList = SKILLS_LIST
  /\ JSZipLoaded \in BOOLEAN
  /\ allBtn = [present |-> page.kind = "index", disabled |-> FALSE,
               textContent |-> "Download All Skills"]
  /\ skillBtn = [present |-> page.kind = "skill", disabled |-> FALSE,
                 textContent |-> "Download SKILL.md"]
  /\ allOp = "idle"
  /\ skillOp = "idle"
  /\ calls = [c \in CallIds |-> IdleCall]
  /\ settled = [i \in Entries |-> "none"]
  /\ zip = EmptyZip
  /\ blob = "none"
  /\ skillPath = << >>
  /\ downloads = << >>
  /\ alerts = << >>
  /\ console = {}
  /\ labelBefore = ""
  /\ FormLoaded
  /\ formFields = NoFields
  /\ submitBtn = [present |-> FALSE, disabled |-> FALSE, textContent |-> ""]
  /\ preview = << >>
  /\ NoTimers
  /\ eventBudget = 0

\* ---------------------------------------------------------- downloadAllSkills
\* EntryCatch without the try/catch: the callback's promise is rejected.
EntryCatchRethrow(error) == "rejected"

\* The try/catch of the map callback (lines 116-119): how the callback's promise
\* settles when fetchFileContent throws.
EntryCatch(error) == "fulfilled"

\* PromiseAll replaced by a join that settles with the first settled promise.
PromiseRace(s) ==
  IF \E i \in DOMAIN s : s[i] = "rejected" THEN "rejected"
  ELSE IF \E i \in DOMAIN s : s[i] = "fulfilled" THEN "fulfilled"
  ELSE "pending"

\* await Promise.all(fetchPromises): fulfilled once every promise is fulfilled,
\* rejected as soon as one is rejected.
PromiseAll(s) ==
  IF \E i \in DOMAIN s : s[i] = "rejected" THEN "rejected"
  ELSE IF \A i \in DOMAIN s : s[i] = "fulfilled" THEN "fulfilled"
  ELSE "pending"

\* MapEntries resolving one entry at a time: only the first call is started.
MapEntriesFirstOnly(p, list, old) ==
  [c \in CallIds |-> IF c = 1 THEN StartCall(p, list[c].path)
                     ELSE IF c \in Entries THEN IdleCall ELSE old[c]]

\* SKILLS_LIST.map(async ...) of lines 104-106: every callback runs up to its
\* first await, so every entry's primary request is issued in the same turn.
MapEntries(p, list, old) ==
  [c \in CallIds |-> IF c \in Entries THEN StartCall(p, list[c].path) ELSE old[c]]

\* JSZipMissing with the check moved behind the fetches: nothing is found
\* missing before the entries are resolved.
JSZipMissingUnchecked(loaded) == FALSE

\* The check of lines 94-98.
JSZipMissing(loaded) == ~loaded

\* Click on #download-all-btn: downloadAllSkills up to its first await.
ClickDownloadAll ==
  /\ allBtn.present /\ ~allBtn.disabled
  /\ labelBefore' = allBtn.textContent
  /\ downloads' = << >>
  /\ console' = IF JSZipMissing(JSZipLoaded) THEN {[level |-> "error", path |-> << >>]} ELSE {}
  /\ blob' = "none"
  /\ IF JSZipMissing(JSZipLoaded)
     THEN /\ alerts' = << AllAlert >>
          /\ allBtn' = AllIdleAfterAlert(Busy(allBtn))
          /\ allOp' = "settled"
          /\ UNCHANGED << calls, settled, zip >>
     ELSE /\ alerts' = << >>
          /\ allBtn' = Busy(allBtn)
          /\ allOp' = "fetching"
          /\ zip' = ZipFolder(EmptyZip, << >>, << "skills" >>)
          /\ calls' = MapEntries(page, skillsList, calls)
          /\ settled' = [i \in Entries |-> "pending"]
  /\ UNCHANGED << formVars, page, skillsList, JSZipLoaded, skillBtn, skillOp, skillPath >>

\* A request of entry i settles; fetchFileContent runs on to its next await, and
\* when it returns or throws the map callback runs to its end (lines 106-119).
EntryStep(i, r) ==
  LET after == Advance(calls[i], r)
      warn  == IF PrimaryWarned(calls[i], after)
               THEN {[level |-> "warn", path |-> after.path]} ELSE {}
  IN  /\ calls' = [calls EXCEPT ![i] = after]
      /\ CASE after.pc = "returned" ->
                /\ zip' = StoreSkill(zip, skillsList[i].path, after.content)
                /\ settled' = [settled EXCEPT ![i] = "fulfilled"]
                /\ console' = console \cup warn
           [] after.pc = "thrown" ->
                /\ settled' = [settled EXCEPT ![i] = EntryCatch(after.error)]
                /\ console' = console \cup {[level |-> "error", path |-> skillsList[i].path]}
                /\ UNCHANGED zip
           [] OTHER ->
                /\ console' = console \cup warn
                /\ UNCHANGED << zip, settled >>
      /\ UNCHANGED << formVars, page, skillsList, JSZipLoaded, allBtn, skillBtn, allOp, skillOp, blob,
                      skillPath, downloads, alerts, labelBefore >>

EntryResponse ==
  \E i \in Entries : \E r \in Settlements(calls[i]) : EntryStep(i, r)

\* The continuation of await Promise.all (line 122): zip.generateAsync is called,
\* or the rejection is caught at line 139.
AllJoined ==
  /\ allOp = "fetching"
  /\ PromiseAll(settled) # "pending"
  /\ IF PromiseAll(settled) = "fulfilled"
     THEN /\ allOp' = "generating"
          /\ blob' = "pending"
          /\ UNCHANGED << allBtn, alerts, console >>
     ELSE /\ allOp' = "settled"
          /\ UNCHANGED blob
          /\ alerts' = Append(alerts, AllAlert)
          /\ console' = console \cup {[level |-> "error", path |-> << >>]}
          /\ allBtn' = AllIdleAfterAlert(allBtn)
  /\ UNCHANGED << formVars, page, skillsList, JSZipLoaded, skillBtn, skillOp, calls, settled, zip,
                  skillPath, downloads, labelBefore >>

\* zip.generateAsync settles (line 125): the blob is saved (126-138), or the
\* rejection is caught (139-146).
GenerateSettles ==
  /\ allOp = "generating"
  /\ \E ok \in BOOLEAN :
       IF ok
       THEN /\ blob' = "fulfilled"
            /\ downloads' = Append(downloads, [name |-> << "awesome-econ-ai-skills.zip" >>,
                                               content |-> zip.files])
            /\ allBtn' = AllIdleAfterSave(allBtn)
            /\ UNCHANGED << alerts, console >>
       ELSE /\ blob' = "rejected"
            /\ alerts' = Append(alerts, AllAlert)
            /\ console' = console \cup {[level |-> "error", path |-> << >>]}
            /\ allBtn' = AllIdleAfterAlert(allBtn)
            /\ UNCHANGED downloads
  /\ allOp' = "settled"
  /\ UNCHANGED << formVars, page, skillsList, JSZipLoaded, skillBtn, skillOp, calls, settled, zip,
                  skillPath, labelBefore >>

\* ---------------------------------------------------------- downloadSkillFile
\* deriveSkillPath with the trailing separator left in place.
deriveSkillPathKeepSlash(p) ==
  LET currentPath == p.pathname
      baseUrl     == getBaseUrl(p)
      stripped    == IF baseUrl # << >> /\ StartsWith(currentPath, baseUrl)
                     THEN Substring(currentPath, Len(baseUrl)) ELSE currentPath
      withFile    == stripped \o << "/", "SKILL.md" >>
  IN  IF StartsWith(withFile, << "/", "skills", "/" >>)
      THEN << "_skills", "/" >> \o Substring(withFile, 3)
      ELSE withFile

\* Lines 161-175: the target path derived from the current page path.
deriveSkillPath(p) ==
  LET currentPath == p.pathname
      baseUrl     == getBaseUrl(p)
      stripped    == IF baseUrl # << >> /\ StartsWith(currentPath, baseUrl)
                     THEN Substring(currentPath, Len(baseUrl)) ELSE currentPath
      withFile    == StripTrailingSlash(stripped) \o << "/", "SKILL.md" >>
  IN  IF StartsWith(withFile, << "/", "skills", "/" >>)
      THEN << "_skills", "/" >> \o Substring(withFile, 3)
      ELSE withFile

\* downloadName taking the last element of pathParts instead of the one before it.
downloadNameLastPart(path) ==
  LET pathParts == Split(path)
      segment   == Part(pathParts, Len(pathParts) - 1)
      skillName == IF segment = << >> THEN << "skill" >> ELSE segment
  IN  skillName \o << "-SKILL.md" >>

\* Lines 181-189: the name of the saved file.
downloadName(path) ==
  LET pathParts == Split(path)
      segment   == Part(pathParts, Len(pathParts) - 2)
      skillName == IF segment = << >> THEN << "skill" >> ELSE segment
  IN  skillName \o << "-SKILL.md" >>

\* SkillCatchAlerts with the alert left out: the failure is only logged.
SkillCatchSilent(error) == FALSE

\* SkillCatchAlerts reporting only the errors fetchFileContent constructs itself.
SkillCatchAlertsOwnErrors(error) == error.name = "Error"

\* The catch of lines 199-206: whether the failure is reported with alert().
SkillCatchAlerts(error) == TRUE

\* Click on #download-skill-btn: downloadSkillFile up to its first await.
ClickDownloadSkill ==
  /\ skillBtn.present /\ ~skillBtn.disabled
  /\ labelBefore' = skillBtn.textContent
  /\ downloads' = << >>
  /\ alerts' = << >>
  /\ console' = {}
  /\ skillBtn' = Busy(skillBtn)
  /\ skillPath' = deriveSkillPath(page)
  /\ calls' = [calls EXCEPT ![SkillCall] = StartCall(page, skillPath')]
  /\ skillOp' = "fetching"
  /\ UNCHANGED << formVars, page, skillsList, JSZipLoaded, allBtn, allOp, settled, zip, blob >>

\* The request of the single call settles; when fetchFileContent returns the
\* file is saved (181-198), when it throws the catch of 199-206 runs.
SkillStep(r) ==
  LET after == Advance(calls[SkillCall], r)
      warn  == IF PrimaryWarned(calls[SkillCall], after)
               THEN {[level |-> "warn", path |-> after.path]} ELSE {}
  IN  /\ calls' = [calls EXCEPT ![SkillCall] = after]
      /\ CASE after.pc = "returned" ->
                /\ downloads' = Append(downloads, [name |-> downloadName(skillPath),
                                                   content |-> after.content])
                /\ skillBtn' = SkillIdleAfterSave(skillBtn)
                /\ skillOp' = "settled"
                /\ console' = console \cup warn
                /\ UNCHANGED alerts
           [] after.pc = "thrown" ->
                /\ alerts' = IF SkillCatchAlerts(after.error)
                             THEN Append(alerts, SkillAlert) ELSE alerts
                /\ skillBtn' = SkillIdleAfterAlert(skillBtn)
                /\ skillOp' = "settled"
                /\ console' = console \cup {[level |-> "error", path |-> << >>]}
                /\ UNCHANGED downloads
           [] OTHER ->
                /\ console' = console \cup warn
                /\ UNCHANGED << skillBtn, skillOp, downloads, alerts >>
      /\ UNCHANGED << formVars, page, skillsList, JSZipLoaded, allBtn, allOp, settled, zip, blob,
                      skillPath, labelBefore >>

SkillResponse ==
  \E r \in Settlements(calls[SkillCall]) : SkillStep(r)

\* ------------------------------------------------------------------- Next
Next ==
  \/ ClickDownloadAll
  \/ EntryResponse
  \/ AllJoined
  \/ GenerateSettles
  \/ ClickDownloadSkill
  \/ SkillResponse

Spec == Init /\ [][Next]_vars

\* The event loop runs every continuation whose promise has settled, and every
\* issued request is assumed to settle.
\* The deployed pages: the script tag of the layouts has set window.siteBaseurl.
FairInit == Init /\ page.siteBaseurl.defined

FairSpec ==
  /\ FairInit
  /\ [][Next]_vars
  /\ \A i \in Entries : WF_vars(\E r \in Settlements(calls[i]) : EntryStep(i, r))
  /\ WF_vars(AllJoined)
  /\ WF_vars(GenerateSettles)
  /\ WF_vars(SkillResponse)

\* ------------------------------------------------------------- type check
TypeOK ==
  /\ page \in Pages
  /\ allOp \in {"idle", "fetching", "generating", "settled"}
  /\ skillOp \in {"idle", "fetching", "settled"}
  /\ blob \in {"none", "pending", "fulfilled", "rejected"}
  /\ \A c \in CallIds :
       calls[c].pc \in {"idle", "primaryFetch", "primaryText", "secondaryFetch",
                        "secondaryText", "returned", "thrown"}
  /\ Len(downloads) <= 1
  /\ Len(alerts) <= 1

\* ================================================================ form.js
\* The skill submission form of pages/submit.html (assets/js/form.js).

RECURSIVE SplitCommaFrom(_, _, _)
SplitCommaFrom(s, i, cur) ==
  IF i > Len(s) THEN << cur >>
  ELSE IF s[i] = "," THEN << cur >> \o SplitCommaFrom(s, i + 1, << >>)
  ELSE SplitCommaFrom(s, i + 1, Append(cur, s[i]))

\* s.split(',')
SplitComma(s) == SplitCommaFrom(s, 1, << >>)

\* Values the user can give the fields of the form.
NameInputs == { << "my", "-", "skill" >>, << "DiD" >>, << "\\uD800" >> }

TagInputs == { << >>, << "a", ",", " ", "b" >>, << " ", "," >> }

CompatibilityInputs == { << >>, << << "claude-code" >> >>, << << "claude-code" >>, << "cursor" >> >> }

ExampleInputs == { << >>, << "out" >> }

GithubInputs == { << >>, << "octocat" >> }

FieldInputs ==
  [name : NameInputs, tags : TagInputs, compatibility : CompatibilityInputs,
   example : ExampleInputs, github_username : GithubInputs,
   description : {<< "desc" >>}, workflow_stage : {<< "analysis" >>},
   primary_tool : {<< "stata" >>}, purpose : {<< "why" >>}, instructions : {<< "how" >>},
   author_name : {<< "Ada" >>}, author_email : {<< "ada@example.org" >>}]

LoneSurrogate == "\\uD800"

ReplacementCharacter == "\\uFFFD"

\* The conversion of a field's value to a scalar value string: a lone
\* surrogate becomes U+FFFD.
ScalarValueString(str) ==
  [i \in 1 .. Len(str) |-> IF str[i] = LoneSurrogate THEN ReplacementCharacter ELSE str[i]]

\* Line 26: new FormData(form).  Browsers that construct the entry list as
\* the standard has it since 2021 convert every value to a scalar value
\* string; earlier ones hand the values over as they are.
FormData(fields) ==
  IF page.scalarFormData
  THEN [k \in DOMAIN fields |->
          IF k = "compatibility"
          THEN [j \in 1 .. Len(fields[k]) |-> ScalarValueString(fields[k][j])]
          ELSE ScalarValueString(fields[k])]
  ELSE fields

\* Lines 50-72: buildSkillData.
buildSkillData(formData) ==
  LET trimmed == [k \in 1 .. Len(SplitComma(formData.tags)) |-> Trim(SplitComma(formData.tags)[k])]
      tags    == IF formData.tags # << >>
                 THEN SelectSeq(trimmed, LAMBDA t : t # << >>)
                 ELSE << >>
  IN  [name           |-> formData.name,
       description    |-> formData.description,
       workflow_stage |-> formData.workflow_stage,
       primary_tool   |-> formData.primary_tool,
       compatibility  |-> formData.compatibility,
       purpose        |-> formData.purpose,
       instructions   |-> formData.instructions,
       example        |-> formData.example,
       tags           |-> tags,
       author         |-> [name   |-> formData.author_name,
                           email  |-> formData.author_email,
                           github |-> formData.github_username]]

\* Line 203 on one word: first character upper case, the rest lower case.
TitleWord(w) ==
  CASE w = "my"    -> "My"
    [] w = "skill" -> "Skill"
    [] w = "DiD"   -> "Did"
    [] OTHER       -> w

\* Lines 201-205 applied to data.name.replace(/-/g, ' ').
toTitleCase(str) ==
  [i \in 1 .. Len(str) |-> IF str[i] = "-" THEN " " ELSE TitleWord(str[i])]

RECURSIVE JoinLines(_)
\* items.map(x => `  - ${x}`).join('\n')
JoinLines(items) ==
  IF Len(items) = 0 THEN << >>
  ELSE IF Len(items) = 1 THEN << "  - " >> \o items[1]
  ELSE << "  - " >> \o items[1] \o << "\n" >> \o JoinLines(Tail(items))

\* generateSkillMarkdown with the version line above the author line.
generateSkillMarkdownVersionFirst(data) ==
  << "---", "\n" >>
  \o << "name: " >> \o data.name \o << "\n" >>
  \o << "description: " >> \o data.description \o << "\n" >>
  \o << "workflow_stage: " >> \o data.workflow_stage \o << "\n" >>
  \o << "compatibility:", "\n" >>
  \o JoinLines(data.compatibility) \o << "\n" >>
  \o << "version: 1.0.0", "\n" >>
  \o << "author: " >> \o data.author.name \o << " <" >> \o data.author.email
  \o << ">", "\n" >>
  \o << "tags:", "\n" >>
  \o (IF Len(data.tags) > 0 THEN JoinLines(data.tags) ELSE << "  - general" >>)
  \o << "\n", "---", "\n", "\n" >>
  \o << "# " >> \o toTitleCase(data.name) \o << "\n" >>

\* Lines 99-139: generateSkillMarkdown; the template literal, with "\n" tokens
\* for its line ends and the token "<fence>" for a line of three backquotes.
generateSkillMarkdown(data) ==
  LET compatibilityYaml == JoinLines(data.compatibility)
      tagsYaml == IF Len(data.tags) > 0 THEN JoinLines(data.tags) ELSE << "  - general" >>
      exampleBlock == IF data.example # << >>
                      THEN << "## Example Output", "\n", "\n", "<fence>", "\n" >>
                             \o data.example \o << "\n", "<fence>" >>
                      ELSE << >>
      githubLine == IF data.author.github # << >>
                    THEN << "- **GitHub:** [@" >> \o data.author.github
                           \o << "](https://github.com/" >> \o data.author.github \o << ")" >>
                    ELSE << >>
  IN  << "---", "\n" >>
      \o << "name: " >> \o data.name \o << "\n" >>
      \o << "description: " >> \o data.description \o << "\n" >>
      \o << "workflow_stage: " >> \o data.workflow_stage \o << "\n" >>
      \o << "compatibility:", "\n" >>
      \o compatibilityYaml \o << "\n" >>
      \o << "author: " >> \o data.author.name \o << " <" >> \o data.author.email
      \o << ">", "\n" >>
      \o << "version: 1.0.0", "\n" >>
      \o << "tags:", "\n" >>
      \o tagsYaml \o << "\n" >>
      \o << "---", "\n", "\n" >>
      \o << "# " >> \o toTitleCase(data.name) \o << "\n", "\n" >>
      \o << "## Purpose", "\n", "\n" >> \o data.purpose \o << "\n", "\n" >>
      \o << "## Instructions", "\n", "\n" >> \o data.instructions \o << "\n", "\n" >>
      \o exampleBlock \o << "\n", "\n" >>
      \o << "## Author", "\n", "\n" >>
      \o << "- **Name:** " >> \o data.author.name \o << "\n" >>
      \o << "- **Email:** " >> \o data.author.email \o << "\n" >>
      \o githubLine \o << "\n" >>

\* Tokens encodeURIComponent leaves as they are (letters, digits, - _ . ! ~ * ' ( )).
Unreserved ==
  { "my", "-", "skill", "DiD", "a", "b", "claude-code", "cursor", "out", "octocat",
    "desc", "analysis", "stata", "why", "how", "Ada", "general", "skill-proposal" }

\* encodeURIComponent throws a URIError on a lone surrogate.
EncodeThrows(str) == \E i \in 1 .. Len(str) : str[i] = LoneSurrogate

\* encodeURIComponent: every token with a reserved character is percent-escaped.
encodeURIComponent(str) ==
  [i \in 1 .. Len(str) |-> IF str[i] \in Unreserved THEN << str[i] >> ELSE << "%", str[i] >>]

URIError == [name |-> "URIError", message |-> << "URI malformed" >>]

\* Lines 81-86: the URL submitSkill builds.
issueUrlOf(skillData) ==
  [origin |-> "https://github.com",
   path   |-> << "meleantonio", "/", "awesome-econ-ai-stuff", "/", "issues", "/", "new" >>,
   title  |-> encodeURIComponent(<< "[Skill Proposal] " >> \o skillData.name),
   body   |-> encodeURIComponent(generateSkillMarkdown(skillData)),
   labels |-> << "skill-proposal" >>]

\* Lines 77-94: what the promise of submitSkill settles to.
submitSkill(skillData) ==
  IF EncodeThrows(<< "[Skill Proposal] " >> \o skillData.name)
     \/ EncodeThrows(generateSkillMarkdown(skillData))
  THEN [state |-> "rejected", error |-> URIError, success |-> FALSE,
        prUrl |-> << >>]
  ELSE [state |-> "fulfilled", error |-> NoError, success |-> TRUE,
        prUrl |-> << issueUrlOf(skillData) >>]

\* ------------------------------------------------------- the submit page
\* pages/submit.html: it carries #skill-form and neither download button.
SubmitPage ==
  [kind |-> "submit", siteBaseurl |-> [defined |-> TRUE, value |-> DeploymentSubPath],
   baseTag |-> [present |-> FALSE, href |-> << >>],
   pathname |-> << "/", "awesome-econ-ai-stuff", "/", "pages", "/", "submit.html" >>]

\* The submit page in the two kinds of browser, see FormData.
SubmitPages ==
  { [kind |-> SubmitPage.kind, siteBaseurl |-> SubmitPage.siteBaseurl,
     baseTag |-> SubmitPage.baseTag, pathname |-> SubmitPage.pathname,
     scalarFormData |-> scalar] : scalar \in BOOLEAN }

\* The label the page gives the submit button.
SubmitLabels == { "Submit Skill", "Submit" }

SubmittingLabel == "Submitting..."

\* updatePreview reading the values the fields had when the page was loaded.
updatePreviewDefaults(fields) == generateSkillMarkdown(buildSkillData(NoFields))

\* Lines 162-172: the text updatePreview writes into the preview pane.
updatePreview(fields) == generateSkillMarkdown(buildSkillData(FormData(fields)))

\* Lines 217-218 without line 217: the pending timer is not cleared.
debounceNoClear(pending, handle, id, el, args) ==
  pending \cup {[id |-> id, target |-> el, due |-> Wait, args |-> args]}

\* Lines 217-218, a call of the debounced listener of field el: the timer the
\* variable timeout names is cleared and a new one is set; the timers after it.
debounce(pending, handle, id, el, args) ==
  {t \in pending : t.id # handle}
    \cup {[id |-> id, target |-> el, due |-> Wait, args |-> args]}

\* Lines 213-216, the timers after the callback later of timer t has run.
later(pending, handle, t) == {u \in pending : u.id # handle /\ u # t}

\* The input events the scenarios dispatch per page load.
MaxEdits == 1

MaxBurst == 3

\* The submit page after DOMContentLoaded (lines 5-8): initForm has attached
\* the submit listener and initLivePreview has written the first preview.
FormPage(pages, fieldSet, labels, budget) ==
  /\ page \in pages
  /\ skillsList = SKILLS_LIST
  /\ JSZipLoaded = FALSE
  /\ allBtn = [present |-> FALSE, disabled |-> FALSE, textContent |-> "Download All Skills"]
  /\ skillBtn = [present |-> FALSE, disabled |-> FALSE, textContent |-> "Download SKILL.md"]
  /\ allOp = "idle"
  /\ skillOp = "idle"
  /\ calls = [c \in CallIds |-> IdleCall]
  /\ settled = [i \in Entries |-> "none"]
  /\ zip = EmptyZip
  /\ blob = "none"
  /\ skillPath = << >>
  /\ downloads = << >>
  /\ alerts = << >>
  /\ console = {}
  /\ labelBefore = ""
  /\ FormLoaded
  /\ formFields \in fieldSet
  /\ \E label \in labels :
       submitBtn = [present |-> TRUE, disabled |-> FALSE, textContent |-> label]
  /\ preview = updatePreview(formFields)
  /\ NoTimers
  /\ eventBudget = budget

\* The values the browser has put into the fields when the page is loaded:
\* none, or the values of an earlier visit.
RestoredFields == FieldInputs \cup {NoFields}

\* The restored values of a form of which only the name had been filled in.
DraftFields ==
  { f \in RestoredFields :
      /\ f.tags = << >>
      /\ f.compatibility = << >>
      /\ f.example = << >>
      /\ f.github_username = << >> }

FormInit == FormPage(SubmitPages, DraftFields, SubmitLabels, MaxEdits)

\* Lines 149-153, an input event on field el, whose value has become v: the
\* debounced listener of the field is called with the event.  No event is
\* handled while the continuation of the submit handler is in the microtask
\* queue.
InputEvent(el, v) ==
  /\ submitOp # "awaiting"
  /\ ~formHidden
  /\ events < eventBudget
  /\ v # formFields[el]
  /\ formFields' = [formFields EXCEPT ![el] = v]
  /\ events' = events + 1
  /\ timers' = debounce(timers, timeout[el], events + 1, el, events + 1)
  /\ timeout' = [timeout EXCEPT ![el] = events + 1]
  /\ lastCall' = [lastCall EXCEPT ![el] = events + 1]
  /\ sinceCall' = [sinceCall EXCEPT ![el] = 0]
  /\ funcRuns' = [funcRuns EXCEPT ![el] = 0]
  /\ UNCHANGED << downloadVars, console, submitVars, preview, eventBudget, ranWith,
                  ranAfter >>

EditField ==
  \E el \in Elements : \E v \in {f[el] : f \in FieldInputs} : InputEvent(el, v)

\* Line 152, a change event on a field: updatePreview runs at once.
ChangeEvent ==
  /\ submitOp # "awaiting"
  /\ ~formHidden
  /\ events > 0
  /\ preview' = updatePreview(formFields)
  /\ UNCHANGED << downloadVars, console, formFields, submitVars, debounceVars >>

\* Lines 213-216, a timer whose delay has passed runs later: func is
\* updatePreview.
TimerFires ==
  /\ submitOp # "awaiting"
  /\ \E t \in timers :
       /\ t.due = 0
       /\ timers' = later(timers, timeout[t.target], t)
       /\ funcRuns' = [funcRuns EXCEPT ![t.target] = IF @ < 2 THEN @ + 1 ELSE @]
       /\ ranWith' = [ranWith EXCEPT ![t.target] = t.args]
       /\ ranAfter' = [ranAfter EXCEPT ![t.target] = sinceCall[t.target]]
  /\ preview' = updatePreview(formFields)
  /\ UNCHANGED << downloadVars, console, formFields, submitVars, timeout, events,
                  eventBudget, lastCall, sinceCall >>

\* One unit of time passes.
Tick ==
  /\ submitOp # "awaiting"
  /\ timers # {}
  /\ timers' = {[t EXCEPT !.due = IF @ > 0 THEN @ - 1 ELSE 0] : t \in timers}
  /\ sinceCall' = [el \in Elements |->
                     IF sinceCall[el] < Wait THEN sinceCall[el] + 1 ELSE Wait]
  /\ timers' # timers \/ sinceCall' # sinceCall
  /\ UNCHANGED << downloadVars, console, formFields, submitVars, preview, timeout,
                  events, eventBudget, lastCall, funcRuns, ranWith, ranAfter >>

\* Submitting with the disabling forgotten.
SubmittingLabelOnly(b) == [b EXCEPT !.textContent = SubmittingLabel]

\* Lines 22-23.
Submitting(b) == [b EXCEPT !.textContent = SubmittingLabel, !.disabled = TRUE]

\* Restored with the label left as it is.
RestoredEnabledOnly(b, text) == [b EXCEPT !.disabled = FALSE]

\* Lines 40-41, the finally block.
Restored(b, text) == [b EXCEPT !.textContent = text, !.disabled = FALSE]

\* Lines 17-29: the submit event, up to the await of line 29.  submitSkill has
\* no await, so its whole body, window.open included, runs inside the call.
\* window.open opens the tab, or a popup blocker makes it return null.
SubmitStart ==
  /\ submitBtn.present
  /\ submitOp # "awaiting"
  /\ ~formHidden
  /\ ~submitBtn.disabled
  /\ originalText' = submitBtn.textContent
  /\ submitBtn' = Submitting(submitBtn)
  /\ response' = submitSkill(buildSkillData(FormData(formFields)))
  /\ \E blocked \in BOOLEAN :
       opened' = IF response'.state = "fulfilled" /\ ~blocked
                 THEN opened \o response'.prUrl ELSE opened
  /\ submitOp' = "awaiting"
  /\ UNCHANGED << downloadVars, console, formFields, formHidden, successHidden,
                  errorHidden, prLinkHref, errorText, github, preview, debounceVars >>

\* Lines 177-185: showSuccess(prUrl).
showSuccess(prUrl) ==
  /\ formHidden' = TRUE
  /\ successHidden' = FALSE
  /\ prLinkHref' = prUrl
  /\ UNCHANGED << errorHidden, errorText >>

\* Lines 190-196: showError(message).
showError(message) ==
  /\ errorHidden' = FALSE
  /\ errorText' = message
  /\ UNCHANGED << formHidden, successHidden, prLinkHref >>

\* Lines 31-43: the continuation of the submit handler after the await.
SubmitResume ==
  /\ submitOp = "awaiting"
  /\ IF response.state = "fulfilled"
     THEN /\ IF response.success
             THEN showSuccess(response.prUrl)
             ELSE showError(IF response.error # NoError THEN response.error.message
                            ELSE << "Submission failed" >>)
          /\ UNCHANGED console
     ELSE /\ showError(response.error.message)
          /\ console' = console \cup {[level |-> "error", path |-> << >>]}
  /\ submitBtn' = Restored(submitBtn, originalText)
  /\ submitOp' = "settled"
  /\ UNCHANGED << downloadVars, formFields, originalText, response, opened, github,
                  preview, debounceVars >>

\* The user sends the prefilled new-issue form of a tab the page has opened.
UserFilesIssue ==
  /\ submitOp = "settled"
  /\ \E k \in 1 .. Len(opened) :
       /\ opened[k] \notin github.issues
       /\ github' = [github EXCEPT !.issues = @ \cup {opened[k]}]
  /\ UNCHANGED << downloadVars, console, formFields, submitBtn, submitOp, originalText,
                  response, formHidden, successHidden, errorHidden, prLinkHref,
                  errorText, opened, preview, debounceVars >>

FormNext ==
  \/ EditField
  \/ ChangeEvent
  \/ TimerFires
  \/ Tick
  \/ SubmitStart
  \/ SubmitResume
  \/ UserFilesIssue

FormSpec == FormInit /\ [][FormNext]_vars

\* A fresh visit of the submit page in which the user types for a while.
PreviewInit == FormPage(SubmitPages, {NoFields}, {"Submit Skill"}, MaxBurst)

PreviewSpec == PreviewInit /\ [][FormNext]_vars

\* The submit page in a browser whose FormData converts its values, loaded
\* with any restored values: the runs that show what the markdown of each input
\* looks like.
MarkdownInit ==
  FormPage({ p \in SubmitPages : p.scalarFormData }, RestoredFields,
           {"Submit Skill"}, MaxEdits)

MarkdownSpec == MarkdownInit /\ [][FormNext]_vars

\* ================================================================= claims
\* Vocabulary of the claims, stated without the operators of the model.

\* The text begins, after leading whitespace, with a document-type declaration
\* or an opening html tag.
BeginsWithMarkup(text) ==
  \E i \in 1 .. Len(text) :
    /\ text[i] \in {"<!DOCTYPE", "<html"}
    /\ \A j \in 1 .. (i - 1) : text[j] = " "

\* The directory-separated segments of a path.
Segments(path) == SelectSeq(path, LAMBDA t : t # "/")

\* skills/<second segment>/<third segment>/<last segment>
ArchiveNameOf(path) ==
  LET g == Segments(path)
  IN  << "skills", "/", g[2], "/", g[3], "/", g[Len(g)] >>

PrimaryValid(c) == c.primary.kind = "body" /\ ~BeginsWithMarkup(c.primary.body)

PrimaryRejectedContent(c) == c.primary.kind = "body" /\ BeginsWithMarkup(c.primary.body)

PrimaryFailed(c) == c.primary.kind \in {"reject", "notok"} \/ PrimaryRejectedContent(c)

SecondaryFailed(c) == c.secondary.kind \in {"reject", "notok"}

SecondaryIssued(c) ==
  /\ c.pc \in {"secondaryFetch", "secondaryText", "returned", "thrown"}
  /\ c.pc \in {"secondaryFetch", "secondaryText"} => c.url = githubUrl(c.path)
  /\ c.pc \in {"returned", "thrown"} => c.secondary.kind # "none"

BothFailed(c) == PrimaryFailed(c) /\ SecondaryFailed(c)

Resolved(c) == c.pc = "returned"

FailedEntries == {i \in Entries : BothFailed(calls[i])}

ResolvedEntries == {i \in Entries : Resolved(calls[i])}

FilesOfResolved ==
  {[name |-> ArchiveNameOf(SKILLS_LIST[i].path), content |-> calls[i].content] :
     i \in ResolvedEntries}

ZipName == << "awesome-econ-ai-skills.zip" >>

\* C1: a successful primary response whose body begins (after leading
\* whitespace) with a document-type declaration or an opening html tag is never
\* returned: the secondary request is issued, and when the call returns its
\* result is the secondary's body.
C1_FallbackOnMarkup ==
  \A c \in CallIds :
    PrimaryRejectedContent(calls[c]) =>
      /\ SecondaryIssued(calls[c])
      /\ Resolved(calls[c]) =>
           /\ calls[c].secondary.kind = "body"
           /\ calls[c].content = calls[c].secondary.body

C1_Witness ==
  \E c \in CallIds :
    /\ PrimaryRejectedContent(calls[c])
    /\ Resolved(calls[c])
    /\ calls[c].content # calls[c].primary.body
    /\ Head(calls[c].primary.body) = " "

\* C2: when M of the N entries (0 < M < N) fail both attempts and the others
\* resolve, the bulk download raises no alert and does not end in its catch
\* block because of them; the archive holds exactly the N-M files of the
\* resolved entries, and that archive is what is saved.
C2_PartialFailure ==
  ( /\ allOp # "idle"
    /\ FailedEntries \cup ResolvedEntries = Entries
    /\ FailedEntries # {}
    /\ ResolvedEntries # {} )
  => /\ zip.files = FilesOfResolved
     /\ Cardinality(zip.files) = NumSkills - Cardinality(FailedEntries)
     /\ blob # "rejected" => alerts = << >>
     /\ allOp = "settled" => blob \in {"fulfilled", "rejected"}
     /\ (allOp = "settled" /\ blob = "fulfilled") =>
          downloads = << [name |-> ZipName, content |-> FilesOfResolved] >>

C2_Witness ==
  /\ allOp = "settled"
  /\ FailedEntries # {}
  /\ ResolvedEntries # {}
  /\ Len(downloads) = 1
  /\ alerts = << >>
  /\ Cardinality(downloads[1].content) = NumSkills - Cardinality(FailedEntries)

\* C3: zip.generateAsync has been called only if every per-entry resolution
\* has settled (returned or thrown), whatever the order of the responses.
C3_GenerateAfterAllSettled ==
  blob # "none" => \A i \in Entries : calls[i].pc \in {"returned", "thrown"}

C3_Witness ==
  /\ blob = "pending"
  /\ BothFailed(calls[1])
  /\ Resolved(calls[NumSkills])

\* C4: once a bulk or single-file operation has settled, its button is enabled
\* and carries the label it had when the operation started.
C4_ButtonRestored ==
  /\ allOp = "settled" => (~allBtn.disabled /\ allBtn.textContent = labelBefore)
  /\ skillOp = "settled" => (~skillBtn.disabled /\ skillBtn.textContent = labelBefore)

C4_Witness ==
  /\ skillOp = "settled"
  /\ BothFailed(calls[SkillCall])
  /\ labelBefore = "Download SKILL.md"

\* C5: the text stored for an entry is the primary body when the primary
\* request succeeded with valid text, and otherwise the body of a successful
\* secondary request.
C5_StoredContent ==
  \A i \in Entries :
    Resolved(calls[i]) =>
      \E f \in zip.files :
        /\ f.name = ArchiveNameOf(SKILLS_LIST[i].path)
        /\ IF PrimaryValid(calls[i])
           THEN f.content = calls[i].primary.body
           ELSE /\ PrimaryFailed(calls[i])
                /\ calls[i].secondary.kind = "body"
                /\ f.content = calls[i].secondary.body

C5_Witness ==
  /\ PrimaryValid(calls[1]) /\ Resolved(calls[1])
  /\ calls[2].primary.kind = "notok" /\ Resolved(calls[2])
  /\ [name |-> ArchiveNameOf(SKILLS_LIST[1].path), content |-> << "A" >>] \in zip.files
  /\ [name |-> ArchiveNameOf(SKILLS_LIST[2].path), content |-> << " ", "B" >>] \in zip.files

\* C6: a resolved entry is stored at skills/<category>/<name>/<filename>, the
\* second, third and last segment of its relative path; this holds of every
\* entry of SKILLS_LIST, and _skills/writing/latex-tables/SKILL.md is stored at
\* skills/writing/latex-tables/SKILL.md.
C6_ArchiveLayout ==
  /\ \A i \in Entries :
       Resolved(calls[i]) =>
         [name |-> ArchiveNameOf(SKILLS_LIST[i].path), content |-> calls[i].content]
           \in zip.files
  /\ \A f \in zip.files : \E i \in ResolvedEntries : f.name = ArchiveNameOf(SKILLS_LIST[i].path)
  /\ allOp # "idle" =>
       \A k \in 1 .. Len(SKILLS_LIST) :
         {f.name : f \in StoreSkill(zip, SKILLS_LIST[k].path, << "A" >>).files}
           = {f.name : f \in zip.files} \cup {ArchiveNameOf(SKILLS_LIST[k].path)}
  /\ allOp # "idle" =>
       [name |-> << "skills", "/", "writing", "/", "latex-tables", "/", "SKILL.md" >>,
        content |-> << "A" >>]
         \in StoreSkill(zip, SkillMd("writing", "latex-tables"), << "A" >>).files

C6_Witness ==
  /\ allOp = "settled"
  /\ Len(downloads) = 1
  /\ ResolvedEntries = Entries
  /\ \E f \in downloads[1].content :
       f.name = << "skills", "/", "analysis", "/", "r-econometrics", "/", "SKILL.md" >>

\* C7 as stated: no text returned by fetchFileContent, from either source,
\* begins (after leading whitespace) with a document-type declaration or an
\* opening html tag.
C7_NoMarkupReturned ==
  \A c \in CallIds : Resolved(calls[c]) => ~BeginsWithMarkup(calls[c].content)

\* C7 amended: the text fetchFileContent returns from the primary source never
\* begins (after leading whitespace) with a document-type declaration or an
\* opening html tag; a successful secondary response is returned as it is,
\* whatever its body.
C7_PrimaryValidated ==
  \A c \in CallIds :
    Resolved(calls[c]) =>
      IF calls[c].secondary.kind = "none"
      THEN /\ calls[c].primary.kind = "body"
           /\ calls[c].content = calls[c].primary.body
           /\ ~BeginsWithMarkup(calls[c].content)
      ELSE /\ calls[c].secondary.kind = "body"
           /\ calls[c].content = calls[c].secondary.body

C7_Witness ==
  \E c \in CallIds :
    /\ Resolved(calls[c])
    /\ calls[c].secondary.kind = "none"
    /\ Head(calls[c].content) = " "

\* C8: when both the primary and the secondary fetch of downloadSkillFile have
\* failed, the settled operation has shown its alert and saved no file.
C8_SingleFileFailure ==
  (skillOp = "settled" /\ BothFailed(calls[SkillCall])) =>
    /\ alerts = << SkillAlert >>
    /\ downloads = << >>

C8_Witness ==
  /\ skillOp = "settled"
  /\ calls[SkillCall].primary.kind = "reject"
  /\ calls[SkillCall].secondary.kind = "reject"
  /\ Len(alerts) = 1

\* C9: a bulk download that finds JSZip missing, or whose blob generation
\* throws, shows the alert, saves no file and leaves the button idle; a bulk
\* download shows an alert on no other path.
C9_FatalPaths ==
  /\ (allOp = "settled" /\ (~JSZipLoaded \/ blob = "rejected")) =>
       /\ alerts = << AllAlert >>
       /\ downloads = << >>
       /\ ~allBtn.disabled
       /\ allBtn.textContent = "Download All Skills"
  /\ (page.kind = "index" /\ alerts # << >>) =>
       /\ allOp = "settled"
       /\ ~JSZipLoaded \/ blob = "rejected"

C9_Witness ==
  /\ allOp = "settled"
  /\ blob = "rejected"
  /\ JSZipLoaded
  /\ ResolvedEntries # {}
  /\ Len(alerts) = 1

\* C10 as stated: whenever both attempts have failed, by a non-success status
\* or by a network error, the error fetchFileContent throws identifies the path.
C10_ErrorNamesPath ==
  \A c \in CallIds :
    BothFailed(calls[c]) =>
      /\ calls[c].pc = "thrown"
      /\ Includes(calls[c].error.message, calls[c].path)

\* C10 amended: when both attempts have failed and the secondary failed by a
\* non-success status, fetchFileContent throws an Error whose message contains
\* the path and the status text; when the secondary failed by a network
\* error, the rejection of fetch propagates unchanged.
C10_StatusErrorNamesPath ==
  \A c \in CallIds :
    BothFailed(calls[c]) =>
      /\ calls[c].pc = "thrown"
      /\ calls[c].secondary.kind = "notok" =>
           /\ calls[c].error.name = "Error"
           /\ Includes(calls[c].error.message, calls[c].path)
           /\ Includes(calls[c].error.message, StatusText)
      /\ calls[c].secondary.kind = "reject" => calls[c].error = NetworkError

C10_Witness ==
  \E c \in CallIds :
    /\ calls[c].pc = "thrown"
    /\ calls[c].primary.kind = "notok"
    /\ calls[c].secondary.kind = "notok"
    /\ Len(calls[c].path) > 0

\* C11: one call of fetchFileContent issues at most two requests: first the
\* primary one, then at most one secondary one, which is issued only after the
\* primary attempt has failed and never after it returned valid text; nothing
\* is retried, and what a call returns is the body of one of its own responses.
C11_AtMostTwoRequests ==
  \A c \in CallIds :
    LET call == calls[c] IN
      /\ Len(call.requests) <= 2
      /\ call.pc # "idle" =>
           /\ Len(call.requests) >= 1
           /\ call.requests[1] = getBaseUrl(page) \o << "/" >> \o call.path
      /\ Len(call.requests) = 2 =>
           /\ call.requests[2] = githubUrl(call.path)
           /\ PrimaryFailed(call)
      /\ PrimaryValid(call) => (Len(call.requests) = 1 /\ call.secondary.kind = "none")
      /\ call.pc \in {"primaryFetch", "primaryText"} =>
           /\ Len(call.requests) = 1
           /\ call.primary.kind = "none" /\ call.secondary.kind = "none"
           /\ call.content = NoBody
      /\ Resolved(call) =>
           \/ (call.primary.kind = "body" /\ call.content = call.primary.body)
           \/ (call.secondary.kind = "body" /\ call.content = call.secondary.body)

C11_Witness ==
  \E c \in CallIds :
    /\ calls[c].pc = "thrown"
    /\ Len(calls[c].requests) = 2
    /\ calls[c].primary.kind = "reject"
    /\ calls[c].secondary.kind = "reject"
    /\ calls[c].requests[1] # calls[c].requests[2]

\* The page path has the form <base>/skills/<category>/<name>/.
SkillPageForm(pn, base) ==
  /\ Len(pn) = Len(base) + 7
  /\ SubSeq(pn, 1, Len(base)) = base
  /\ LET t == SubSeq(pn, Len(base) + 1, Len(pn))
     IN  /\ t[1] = "/" /\ t[2] = "skills" /\ t[3] = "/" /\ t[4] # "/"
         /\ t[5] = "/" /\ t[6] # "/" /\ t[7] = "/"

\* C12: for a page path <base>/skills/<category>/<name>/, with <base> the
\* detected base prefix, the target path downloadSkillFile derives and resolves
\* is _skills/<category>/<name>/SKILL.md.
C12_DerivedSkillPath ==
  (skillOp # "idle" /\ SkillPageForm(page.pathname, getBaseUrl(page))) =>
    LET n == Len(page.pathname)
        expected == << "_skills", "/", page.pathname[n - 3], "/", page.pathname[n - 1],
                       "/", "SKILL.md" >>
    IN  /\ skillPath = expected
        /\ calls[SkillCall].path = expected

C12_Witness ==
  /\ skillOp = "settled"
  /\ ~page.siteBaseurl.defined
  /\ page.baseTag.present
  /\ SkillPageForm(page.pathname, DeploymentSubPath)
  /\ skillPath = SkillMd("analysis", "r-econometrics")

\* The four sources of the base prefix, in the order of the claim.
InjectedPresent(p) == p.siteBaseurl.defined

BaseTagHrefPresent(p) == p.baseTag.present /\ Len(p.baseTag.href) > 0

\* The path of an absolute URL (the tokens after its origin), one trailing
\* separator removed.
HrefPath(href) ==
  LET path == SubSeq(href, 2, Len(href))
  IN  IF Len(path) > 0 /\ path[Len(path)] = "/" THEN SubSeq(path, 1, Len(path) - 1) ELSE path

PathContainsSubPath(p) ==
  \E i \in 1 .. Len(p.pathname) - 1 :
    p.pathname[i] = "/" /\ p.pathname[i + 1] = "awesome-econ-ai-stuff"

FirstAvailableBase(p) ==
  CASE InjectedPresent(p) -> p.siteBaseurl.value
    [] ~InjectedPresent(p) /\ BaseTagHrefPresent(p) -> HrefPath(p.baseTag.href)
    [] ~InjectedPresent(p) /\ ~BaseTagHrefPresent(p) /\ PathContainsSubPath(p) ->
         << "/", "awesome-econ-ai-stuff" >>
    [] OTHER -> << >>

\* C13: the base prefix a call of fetchFileContent puts in front of its path is
\* the first available of: the injected window.siteBaseurl, the path of the
\* <base> tag's href (without its trailing separator), the deployment sub-path
\* when the page path contains it, and otherwise the empty string.
C13_BaseUrlOrder ==
  \A c \in CallIds :
    calls[c].pc # "idle" =>
      calls[c].requests[1] = FirstAvailableBase(page) \o << "/" >> \o calls[c].path

C13_Witness ==
  /\ calls[SkillCall].pc = "returned"
  /\ page.siteBaseurl.defined /\ page.siteBaseurl.value = << >>
  /\ page.baseTag.present
  /\ PathContainsSubPath(page)
  /\ Head(calls[SkillCall].requests[1]) = "/"
  /\ calls[SkillCall].requests[1][2] # "awesome-econ-ai-stuff"

InFlight(c) == c.pc \in {"primaryFetch", "primaryText", "secondaryFetch", "secondaryText"}

\* C15: while a bulk or single-file operation has started and not settled, and
\* whenever one of its requests is outstanding, its button is disabled and
\* labelled "Downloading...".
C15_BusyWhileRunning ==
  /\ (allOp \in {"fetching", "generating"} \/ \E i \in Entries : InFlight(calls[i])) =>
       (allBtn.disabled /\ allBtn.textContent = "Downloading...")
  /\ (skillOp = "fetching" \/ InFlight(calls[SkillCall])) =>
       (skillBtn.disabled /\ skillBtn.textContent = "Downloading...")

C15_Witness ==
  /\ allOp = "fetching"
  /\ calls[1].pc = "secondaryText"
  /\ calls[NumSkills].pc = "primaryFetch"
  /\ allBtn.disabled

\* C16: with every request settling eventually, every started bulk or
\* single-file operation eventually settles with its button enabled and
\* showing the idle label.
C16_EventuallyIdle ==
  (allOp \in {"fetching", "generating"} \/ skillOp = "fetching") ~>
    /\ allOp # "idle" =>
         (allOp = "settled" /\ ~allBtn.disabled /\ allBtn.textContent = "Download All Skills")
    /\ skillOp # "idle" =>
         (skillOp = "settled" /\ ~skillBtn.disabled /\ skillBtn.textContent = "Download SKILL.md")

C16_Witness ==
  /\ skillOp = "settled"
  /\ Resolved(calls[SkillCall])
  /\ Len(calls[SkillCall].requests) = 2
  /\ ~skillBtn.disabled
  /\ Len(downloads) = 1

\* C17: the primary requests of all entries are issued before the response of
\* any entry is processed, and an entry's resolution does not wait for
\* another's.
C17_AllIssuedFirst ==
  /\ allOp = "fetching" => \A j \in Entries : Len(calls[j].requests) >= 1
  /\ \A i \in Entries :
       calls[i].pc \notin {"idle", "primaryFetch"} =>
         \A j \in Entries : calls[j].pc # "idle" /\ Len(calls[j].requests) >= 1

C17_Witness ==
  /\ allOp = "fetching"
  /\ calls[1].pc = "primaryFetch"
  /\ Resolved(calls[NumSkills])
  /\ settled[NumSkills] = "fulfilled"
  /\ settled[1] = "pending"

\* The last segment of a page path, a trailing separator ignored; empty when
\* the path has no segment.
LastPathSegment(pn) ==
  LET n == IF Len(pn) > 0 /\ pn[Len(pn)] = "/" THEN Len(pn) - 1 ELSE Len(pn)
  IN  IF n = 0 \/ pn[n] = "/" THEN << >> ELSE << pn[n] >>

C19_CatalogFixed ==
  /\ skillsList = SKILLS_LIST
  /\ \A i, j \in 1 .. Len(skillsList) :
       i # j => skillsList[i].path # skillsList[j].path

C19_Witness ==
  /\ allOp = "fetching"
  /\ downloads = << >>
  /\ \E i \in Entries : Resolved(calls[i])
  /\ Len(skillsList) = 12

\* A submission the page has reported as successful.
SubmissionSucceeded ==
  /\ submitOp = "settled"
  /\ ~successHidden

\* C20: submitting the skill-submission form automatically creates a pull
\* request for the proposed skill: once the page reports the submission as
\* successful, the repository has a pull request.
C20_SubmitCreatesPullRequest ==
  SubmissionSucceeded => github.pulls # {}

RECURSIVE TextLinesFrom(_, _, _)
TextLinesFrom(text, i, cur) ==
  IF i > Len(text) THEN << cur >>
  ELSE IF text[i] = "\n" THEN << cur >> \o TextLinesFrom(text, i + 1, << >>)
  ELSE TextLinesFrom(text, i + 1, Append(cur, text[i]))

\* The lines of a text.
TextLines(text) == TextLinesFrom(text, 1, << >>)

Delimiter == << "---" >>

\* The keys of the documented front matter, as they begin a line.
FrontMatterKeys ==
  << "name: ", "description: ", "workflow_stage: ", "compatibility:", "author: ",
     "version: 1.0.0", "tags:" >>

IsKeyLine(line) ==
  /\ Len(line) > 0
  /\ \E k \in 1 .. Len(FrontMatterKeys) : line[1] = FrontMatterKeys[k]

\* The text starts with a block between two --- lines whose key lines are the
\* seven keys in the documented order, with the author as Name <email> and
\* the version 1.0.0.
HasFrontMatter(text) ==
  LET L == TextLines(text)
  IN  /\ Len(L) >= 2
      /\ L[1] = Delimiter
      /\ \E close \in 2 .. Len(L) :
           /\ L[close] = Delimiter
           /\ \A j \in 2 .. (close - 1) : L[j] # Delimiter
           /\ LET block == SubSeq(L, 2, close - 1)
                  keys  == SelectSeq(block, IsKeyLine)
              IN  /\ [k \in 1 .. Len(keys) |-> keys[k][1]] = FrontMatterKeys
                  /\ \E i \in 2 .. (Len(keys[5]) - 1) :
                       /\ keys[5][i] = " <"
                       /\ keys[5][Len(keys[5])] = ">"
                  /\ keys[6] = << "version: 1.0.0" >>

\* C21: for every input of the form (single-line values in the fields of the
\* front matter), the markdown generateSkillMarkdown produces, which the
\* preview pane shows, starts with a front matter block between --- lines
\* that holds the keys name, description, workflow_stage, compatibility,
\* author, version and tags in that order, the author written Name <email>
\* and the version 1.0.0.
C21_FrontMatter ==
  page.kind = "submit" => HasFrontMatter(preview)

C21_Witness ==
  /\ page.kind = "submit"
  /\ events > 0
  /\ \E el \in DOMAIN funcRuns : funcRuns[el] > 0
  /\ formFields.tags # << >>
  /\ formFields.compatibility = << >>
  /\ HasFrontMatter(preview)

\* C22: when every entry of the catalog has failed both attempts, the bulk
\* download stores no file, raises no alert because of the failures and, once
\* the archive has been generated, saves awesome-econ-ai-skills.zip with no
\* skill file in it.
C22_TotalFailure ==
  (allOp # "idle" /\ FailedEntries = Entries)
  => /\ zip.files = {}
     /\ blob # "rejected" => alerts = << >>
     /\ allOp = "settled" => blob \in {"fulfilled", "rejected"}
     /\ (allOp = "settled" /\ blob = "fulfilled") =>
          downloads = << [name |-> ZipName, content |-> {}] >>

C22_Witness ==
  /\ allOp = "settled"
  /\ FailedEntries = Entries
  /\ \E i \in Entries : calls[i].primary.kind = "body"
  /\ \E i \in Entries : calls[i].secondary.kind = "notok"
  /\ downloads = << [name |-> ZipName, content |-> {}] >>
  /\ alerts = << >>
  /\ ~allBtn.disabled

AllInProgress ==
  allOp \in {"fetching", "generating"} \/ \E i \in Entries : InFlight(calls[i])

SkillInProgress == skillOp = "fetching" \/ InFlight(calls[SkillCall])

\* C23: no step taken while a bulk download is in progress is a click that
\* starts another bulk download, and likewise for the single-file download:
\* each button has at most one operation in progress.
C23_OneOperationPerButton ==
  [][ /\ AllInProgress => ~ClickDownloadAll
      /\ SkillInProgress => ~ClickDownloadSkill ]_vars

C23_Witness ==
  /\ allOp = "generating"
  /\ blob = "pending"
  /\ allBtn.disabled
  /\ ~ENABLED ClickDownloadAll

\* C24: a bulk or single-file operation that has settled has made exactly one
\* of a save-as-file action and an alert: not both, not neither.
C24_ExactlyOneOutcome ==
  (allOp = "settled" \/ skillOp = "settled") =>
    \/ Len(downloads) = 1 /\ Len(alerts) = 0
    \/ Len(downloads) = 0 /\ Len(alerts) = 1

C24_Witness ==
  /\ skillOp = "settled"
  /\ calls[SkillCall].pc = "thrown"
  /\ calls[SkillCall].primary.kind = "notok"
  /\ Len(downloads) = 0
  /\ Len(alerts) = 1

\* C25: no two entries of the catalog have the same archive path, and at every
\* point of a bulk download, whatever the order of the responses so far, the
\* archive holds for each resolved entry its own content under its own path:
\* no entry's file has been replaced by another entry's.
C25_NoOverwrite ==
  /\ Cardinality({ArchiveNameOf(skillsList[i].path) : i \in 1 .. Len(skillsList)})
       = Len(skillsList)
  /\ allOp # "idle" =>
       /\ zip.files = FilesOfResolved
       /\ Cardinality(zip.files) = Cardinality(ResolvedEntries)

C25_Witness ==
  /\ allOp = "fetching"
  /\ Resolved(calls[NumSkills])
  /\ calls[1].pc = "primaryFetch"
  /\ Cardinality(zip.files) = 1

\* C26: on a page where JSZip is not available, a bulk download ends without
\* resolving any entry: no request, primary or secondary, has been issued for
\* any entry of the catalog, and nothing has been put into an archive.
C26_NoRequestWithoutJSZip ==
  (page.kind = "index" /\ ~JSZipLoaded) =>
    /\ \A i \in Entries : calls[i].requests = << >> /\ ~InFlight(calls[i])
    /\ zip.files = {}
    /\ allOp \in {"idle", "settled"}

C26_Witness ==
  /\ ~JSZipLoaded
  /\ allOp = "settled"
  /\ alerts # << >>
  /\ downloads = << >>
  /\ \A i \in Entries : calls[i].requests = << >>

\* The timers the debounced listener of a field has pending.
PendingOf(el) == {t \in timers : t.target = el}

\* C27: for the debounced listener of each field, func runs only once the wait
\* has passed since the listener's last call, so never inside a burst of calls
\* that follow each other by less than the wait; it runs with the arguments of
\* that last call and once only; until then exactly one run is pending, set
\* for the wait after the last call, also when func has run before that call.
C27_Debounce ==
  \A el \in DOMAIN lastCall :
    /\ funcRuns[el] <= 1
    /\ funcRuns[el] = 1 =>
         /\ ranWith[el] = lastCall[el]
         /\ ranAfter[el] >= Wait
         /\ PendingOf(el) = {}
    /\ (lastCall[el] # 0 /\ funcRuns[el] = 0) =>
         /\ Cardinality(PendingOf(el)) = 1
         /\ \A t \in PendingOf(el) :
              /\ t.args = lastCall[el]
              /\ t.due = Wait - sinceCall[el]
    /\ lastCall[el] = 0 => PendingOf(el) = {}

C27_Witness ==
  \E el \in DOMAIN lastCall :
    /\ \A other \in DOMAIN lastCall \ {el} : lastCall[other] = 0
    /\ lastCall[el] = 3
    /\ ranWith[el] = 2
    /\ funcRuns[el] = 0
    /\ sinceCall[el] = 1
    /\ Cardinality(PendingOf(el)) = 1

\* The markdown of the values the fields of the form hold.
MarkdownOfForm == generateSkillMarkdown(buildSkillData(FormData(formFields)))

\* C28: whenever no debounce timer is pending, after whatever input and change
\* events, the preview pane shows the markdown of the current values of the
\* form; and a change event leaves the preview showing it at once.
C28_PreviewFollowsForm ==
  /\ [](timers = {} => preview = MarkdownOfForm)
  /\ [][ChangeEvent => preview' = MarkdownOfForm']_vars

C28_Witness ==
  /\ events = 2
  /\ timers = {}
  /\ \A el \in DOMAIN lastCall : funcRuns[el] = 1
  /\ formFields.name # << >>
  /\ formFields.example # << >>
  /\ preview = MarkdownOfForm

\* C29: through any sequence of submissions, with L the label the page gave
\* the submit button: while a run of the submit handler is in progress the
\* button is disabled and labelled "Submitting...", and at every other time,
\* so whenever a run has settled by reporting success or by catching an
\* exception, it is enabled and labelled L again.
C29_ButtonRestored ==
  \A L \in SubmitLabels :
    (submitBtn.textContent = L) =>
      [](IF submitOp = "awaiting"
         THEN submitBtn.disabled /\ submitBtn.textContent = "Submitting..."
         ELSE ~submitBtn.disabled /\ submitBtn.textContent = L)

\* A run that caught an exception and a later run that reported success.
C29_Witness ==
  /\ submitOp = "settled"
  /\ errorText # << >>
  /\ response.state = "fulfilled"
  /\ ~submitBtn.disabled
  /\ submitBtn.textContent = "Submit"

\* What a settled submission shows when it has succeeded.
SuccessShown ==
  /\ formHidden
  /\ ~successHidden
  /\ opened # << >> => prLinkHref = << opened[Len(opened)] >>

\* What a settled submission shows when something has thrown.
ErrorShown ==
  /\ ~errorHidden
  /\ errorText = response.error.message
  /\ ~formHidden

\* C30: a settled submission has exactly one visible outcome.  When the issue
\* was built and its window opened, the form is hidden, the success message is
\* shown with the opened URL as its link, and the error message is not shown;
\* when something threw, the error message is shown with the message of the
\* exception, the form stays visible and the success message is not shown.
C30_OneVisibleOutcome ==
  submitOp = "settled" =>
    IF response.state = "fulfilled"
    THEN SuccessShown /\ errorHidden
    ELSE ErrorShown /\ successHidden

\* What does hold of every run of the submit handler: it shows one of the two
\* outcomes and leaves the elements of the other as they were, so an error
\* message an earlier run has shown stays shown when a later run succeeds.
EachRunShowsOneOutcome ==
  [][SubmitResume =>
       IF response.state = "fulfilled"
       THEN SuccessShown' /\ UNCHANGED << errorHidden, errorText >>
       ELSE ErrorShown' /\ UNCHANGED << formHidden, successHidden, prLinkHref >>]_vars

====
